---- MODULE Spec2Model ----
(***************************************************************************)
(* Read-through cache of upcoming launches: the two SQLite tables of       *)
(* lib/database.ts, the GET and POST handlers of app/api/launches/route.ts *)
(* and the maintenance statements of scripts/cache-inspector.js.           *)
(*                                                                         *)
(* A handler runs on Node's single thread: the code between two awaits is  *)
(* one step.  GET and POST both await the upstream fetch, so each is two   *)
(* steps (up to the fetch, and from the fetch's result to the response)    *)
(* unless GET answers from a valid cache.  Several requests may have their *)
(* fetch in flight at once.  The inspector is another process; each of its *)
(* SQL statements is one step.                                             *)
(***************************************************************************)
EXTENDS Integers, Sequences, FiniteSets, TLC

VARIABLES
    launches,    \* table launches: its rows in rowid order
    cache_meta,  \* table cache_meta: key -> row, or NoRow
    now,         \* Date.now(), in milliseconds
    inflight,    \* per request slot: where the handler is, and its parameters
    inspector,   \* the inspector process: "idle", or "clearing" inside --clear-all
    resp         \* the response returned by the step just taken, or NoResp

vars == <<launches, cache_meta, now, inflight, inspector, resp>>

----------------------------------------------------------------------------
(* Program constants                                                       *)

CACHE_KEY == "upcoming_launches"
CACHE_TTL_MINUTES == 30
MAX_API_LIMIT == 100

----------------------------------------------------------------------------
(* Bounds of the model                                                     *)

NumReqs == 2        \* request slots that may be in flight together
MaxTicks == 2       \* the clock stops after this many ticks
TicksPerTTL == 2    \* clock ticks in one TTL

TTL_MS == CACHE_TTL_MINUTES * 60 * 1000
TickMs == TTL_MS \div TicksPerTTL
MaxNow == MaxTicks * TickMs

Reqs == 1..NumReqs
Keys == {CACHE_KEY}

----------------------------------------------------------------------------
(* Upstream data.  An ApiLaunch carries id, name, net and the optional     *)
(* status object (here its name, or Absent).  NULL marks a missing name.   *)

Absent == "absent"
NULL == "NULL"

ApiRec(id, name, net, status) ==
    [id |-> id, name |-> name, net |-> net, status |-> status]

BatchA == << ApiRec("L2", "a", 20, "Go"), ApiRec("L1", "a", 10, Absent) >>
BatchB == << ApiRec("L1", "b", 30, "TBD"), ApiRec("L3", "a", 20, Absent) >>
BatchBad == << ApiRec("L3", "b", 5, "Go"), ApiRec("L1", NULL, 10, "Go") >>
BatchEmpty == << >>

Batches == {BatchA, BatchB, BatchBad, BatchEmpty}

\* What one upstream round trip can produce.
Outcomes ==
    [kind : {"ok"}, results : Batches]
    \cup [kind : {"http_error", "transport_error", "no_results", "not_array"},
          results : {BatchEmpty}]

\* Failure of a storage write for a reason outside the data (disk full, busy).
Faults == {"none", "upsert", "meta"}

\* A write can only fail where the handler writes: after a non-empty batch.
Fetches ==
    { f \in [outcome : Outcomes, fault : Faults] :
        f.fault # "none" => (f.outcome.kind = "ok" /\ f.outcome.results # BatchEmpty) }

\* The page windows requests ask for: <<limit, offset>>.  The window is a
\* parameter of the request that nothing reads before the response is built,
\* so each step draws it where it builds the response.
Windows == { <<10, 0>>, <<1, 1>>, <<2, 2>> }

----------------------------------------------------------------------------
(* lib/database.ts                                                         *)

NoRow == [last_updated |-> -1, expires_at |-> -1]

Min(a, b) == IF a < b THEN a ELSE b
Max(a, b) == IF a > b THEN a ELSE b

\* The row INSERT OR REPLACE binds for one launch.
ToRow(launch, t) ==
    [id |-> launch.id,
     name |-> launch.name,
     net |-> launch.net,
     status_name |-> IF launch.status = Absent THEN "Unknown" ELSE launch.status,
     created_at |-> t,
     updated_at |-> t]

\* name TEXT NOT NULL: the statement throws on a launch without a name.
RunFails(launch) == launch.name = NULL

RemoveId(table, id) == SelectSeq(table, LAMBDA row : row.id # id)

\* Variant of InsertOrReplace: an update that keeps the stored status when the
\* new row carries the default.
InsertOrReplace_Merge(table, row) ==
    LET old == SelectSeq(table, LAMBDA r : r.id = row.id)
    IN  Append(RemoveId(table, row.id),
               IF old # << >> /\ row.status_name = "Unknown"
               THEN [row EXCEPT !.status_name = old[1].status_name]
               ELSE row)

\* Variant of InsertOrReplace: INSERT OR IGNORE, the stored row wins.
InsertOrReplace_Ignore(table, row) ==
    IF \E i \in 1..Len(table) : table[i].id = row.id THEN table ELSE Append(table, row)

\* Variant of InsertOrReplace: a plain INSERT that keeps the old row.
InsertOrReplace_Append(table, row) == Append(table, row)

\* INSERT OR REPLACE of one row: the row with the same primary key is deleted
\* and the new row gets a fresh rowid, after every other row.
InsertOrReplace(table, row) == Append(RemoveId(table, row.id), row)

RECURSIVE RunAll(_, _, _, _)
\* The loop of the transaction function over batch[i..]: the table it leaves,
\* or "thrown" at the first statement that fails.
RunAll(table, batch, i, t) ==
    IF i > Len(batch) THEN [thrown |-> FALSE, table |-> table]
    ELSE IF RunFails(batch[i]) THEN [thrown |-> TRUE, table |-> table]
    ELSE RunAll(InsertOrReplace(table, ToRow(batch[i], t)), batch, i + 1, t)

\* Variant of upsertLaunches: the loop stops after the first launch.
upsertLaunches_FirstOnly(table, batch, t, ioFault) ==
    LET run == RunAll(table, SubSeq(batch, 1, Min(1, Len(batch))), 1, t)
    IN  IF run.thrown \/ ioFault
        THEN [thrown |-> TRUE, table |-> table]
        ELSE [thrown |-> FALSE, table |-> run.table]

\* Variant of upsertLaunches: the table is emptied before the batch is written.
upsertLaunches_Truncates(table, batch, t, ioFault) ==
    LET run == RunAll(<< >>, batch, 1, t)
    IN  IF run.thrown \/ ioFault
        THEN [thrown |-> TRUE, table |-> table]
        ELSE [thrown |-> FALSE, table |-> run.table]

\* Variant of upsertLaunches: no transaction, the rows written before the
\* failure stay.
upsertLaunches_NoRollback(table, batch, t, ioFault) ==
    LET run == RunAll(table, batch, 1, t)
    IN  [thrown |-> run.thrown \/ ioFault, table |-> run.table]

\* upsertLaunches: db.transaction rolls the table back when the function throws.
\* ioFault is a failure of the transaction itself (it cannot commit).
upsertLaunches(table, batch, t, ioFault) ==
    LET run == RunAll(table, batch, 1, t)
    IN  IF run.thrown \/ ioFault
        THEN [thrown |-> TRUE, table |-> table]
        ELSE [thrown |-> FALSE, table |-> run.table]

\* ORDER BY net ASC over the rows in rowid order: a row comes after the rows
\* of smaller net and after the rows of equal net and smaller rowid.
\* (SubSeq(s, 1, n) is s, held as a sequence whose elements are computed once.)
OrderByNet(table) ==
    LET n == Len(table)
        before == SubSeq([i \in 1..n |->
                            Cardinality({ j \in 1..n :
                                \/ table[j].net < table[i].net
                                \/ table[j].net = table[i].net /\ j < i })], 1, n)
        at == SubSeq([p \in 1..n |-> CHOOSE i \in 1..n : before[i] = p - 1], 1, n)
    IN  SubSeq([p \in 1..n |-> table[at[p]]], 1, n)

\* Variant of getCachedLaunches: no ORDER BY, the rows come in rowid order.
getCachedLaunches_Unordered(table, limit) ==
    SubSeq(table, 1, Min(limit, Len(table)))

\* getCachedLaunches: SELECT * FROM launches ORDER BY net ASC LIMIT ?
\* (a negative LIMIT is no limit in SQLite).
getCachedLaunches(table, limit) ==
    LET sorted == OrderByNet(table)
    IN  IF limit < 0 THEN sorted ELSE SubSeq(sorted, 1, Min(limit, Len(sorted)))

\* Variant of isCacheValid: the row's existence alone decides.
isCacheValid_NoExpiry(meta, cacheKey, ttlMinutes, t) ==
    meta[cacheKey] # NoRow

\* Variant of isCacheValid: the expiry instant itself still counts as valid.
isCacheValid_Inclusive(meta, cacheKey, ttlMinutes, t) ==
    IF meta[cacheKey] = NoRow THEN FALSE
    ELSE t <= meta[cacheKey].expires_at

\* Variant of isCacheValid: the expiry is recomputed from last_updated and the
\* ttlMinutes of the call.
isCacheValid_Recomputed(meta, cacheKey, ttlMinutes, t) ==
    IF meta[cacheKey] = NoRow THEN FALSE
    ELSE t < meta[cacheKey].last_updated + (ttlMinutes * 60 * 1000)

\* isCacheValid: the ttlMinutes argument is not used.
isCacheValid(meta, cacheKey, ttlMinutes, t) ==
    IF meta[cacheKey] = NoRow THEN FALSE
    ELSE t < meta[cacheKey].expires_at

\* Variant of updateCacheMetadata: the TTL is added as if it were milliseconds.
updateCacheMetadata_MinutesAsMs(meta, cacheKey, ttlMinutes, t) ==
    [meta EXCEPT ![cacheKey] = [last_updated |-> t, expires_at |-> t + ttlMinutes]]

\* Variant of updateCacheMetadata: an existing row keeps its expires_at.
updateCacheMetadata_KeepsExpiry(meta, cacheKey, ttlMinutes, t) ==
    [meta EXCEPT ![cacheKey] =
        [last_updated |-> t,
         expires_at |-> IF meta[cacheKey] = NoRow
                        THEN t + (ttlMinutes * 60 * 1000)
                        ELSE meta[cacheKey].expires_at]]

\* Variant of updateCacheMetadata: replacing an existing row grants half the TTL.
updateCacheMetadata_ShorterOnReplace(meta, cacheKey, ttlMinutes, t) ==
    [meta EXCEPT ![cacheKey] =
        [last_updated |-> t,
         expires_at |-> IF meta[cacheKey] = NoRow
                        THEN t + (ttlMinutes * 60 * 1000)
                        ELSE t + (ttlMinutes * 30 * 1000)]]

\* updateCacheMetadata: INSERT OR REPLACE of the whole row.
updateCacheMetadata(meta, cacheKey, ttlMinutes, t) ==
    [meta EXCEPT ![cacheKey] =
        [last_updated |-> t, expires_at |-> t + (ttlMinutes * 60 * 1000)]]

\* convertToApiFormat of one record: the status object is always present.
ToApi(row) ==
    [id |-> row.id, name |-> row.name, net |-> row.net, status |-> row.status_name]

convertToApiFormat(records) == [i \in 1..Len(records) |-> ToApi(records[i])]

----------------------------------------------------------------------------
(* app/api/launches/route.ts                                               *)

\* Array.prototype.slice(offset, offset + limit) for limit, offset >= 0.
Slice(s, offset, limit) ==
    IF offset >= Len(s) THEN << >>
    ELSE SubSeq(s, offset + 1, Min(offset + limit, Len(s)))

NoLink == -1
NoWarning == ""
StaleWarning == "External API unavailable, returning stale cache data"

Idle == [pc |-> "idle", method |-> "-", calls |-> 0, valid |-> FALSE]

\* What the invocation observed, kept beside the response for the properties
\* below: its upstream calls, the validity the cache had when it began, the
\* upstream outcome, how the writes ended, and the cache_meta row as it was
\* before the step that answered.
Obs(calls, valid, outcome, wrote, meta) ==
    [calls |-> calls, valid |-> valid, fetched |-> outcome.kind,
     batch |-> outcome.results, wrote |-> wrote,
     meta_before |-> meta[CACHE_KEY]]

NoOutcome == [kind |-> "none", results |-> BatchEmpty]

NoResp == [req |-> 0, method |-> "-", status |-> 0, source |-> "-",
           cached |-> FALSE, warning |-> NoWarning, error |-> "",
           count |-> 0, results |-> << >>, next |-> NoLink, previous |-> NoLink,
           limit |-> 0, offset |-> 0,
           obs |-> Obs(0, FALSE, NoOutcome, "none", [k \in Keys |-> NoRow])]

\* Variant of DataResponse: a next link is given when the window ends exactly
\* at the last record.
DataResponse_InclusiveNext(r, method, source, cached, warning, all, page, limit, offset, obs) ==
    LET totalCount == Len(all)
        hasNext == offset + limit <= totalCount
        hasPrevious == offset > 0
    IN  [req |-> r, method |-> method, status |-> 200, source |-> source,
         cached |-> cached, warning |-> warning, error |-> "",
         count |-> totalCount, results |-> page,
         next |-> IF hasNext THEN offset + limit ELSE NoLink,
         previous |-> IF hasPrevious THEN Max(0, offset - limit) ELSE NoLink,
         limit |-> limit, offset |-> offset, obs |-> obs]

\* The JSON body of a data response with its pagination links.
DataResponse(r, method, source, cached, warning, all, page, limit, offset, obs) ==
    LET totalCount == Len(all)
        hasNext == offset + limit < totalCount
        hasPrevious == offset > 0
    IN  [req |-> r, method |-> method, status |-> 200, source |-> source,
         cached |-> cached, warning |-> warning, error |-> "",
         count |-> totalCount, results |-> page,
         next |-> IF hasNext THEN offset + limit ELSE NoLink,
         previous |-> IF hasPrevious THEN Max(0, offset - limit) ELSE NoLink,
         limit |-> limit, offset |-> offset, obs |-> obs]

ErrorResponse(r, method, error, limit, offset, obs) ==
    [req |-> r, method |-> method, status |-> 500, source |-> "-",
     cached |-> FALSE, warning |-> NoWarning, error |-> error,
     count |-> 0, results |-> << >>, next |-> NoLink, previous |-> NoLink,
     limit |-> limit, offset |-> offset, obs |-> obs]

\* Variant of StoredResponse: the body says cached: false.
StoredResponse_NotCached(r, source, warning, table, limit, offset, obs) ==
    LET allCachedRecords == getCachedLaunches(table, MAX_API_LIMIT)
        paginatedRecords == Slice(allCachedRecords, offset, limit)
    IN  DataResponse(r, "GET", source, FALSE, warning, allCachedRecords,
                     convertToApiFormat(paginatedRecords), limit, offset, obs)

\* GET's hit branch, and the stale branch of its catch block: a page of the
\* stored records.
StoredResponse(r, source, warning, table, limit, offset, obs) ==
    LET allCachedRecords == getCachedLaunches(table, MAX_API_LIMIT)
        paginatedRecords == Slice(allCachedRecords, offset, limit)
    IN  DataResponse(r, "GET", source, TRUE, warning, allCachedRecords,
                     convertToApiFormat(paginatedRecords), limit, offset, obs)

\* Variant of GetCatch: no stale fallback, as in POST's catch block.
GetCatch_NoFallback(r, table, limit, offset, obs) ==
    ErrorResponse(r, "GET", "Failed to fetch launch data", limit, offset, obs)

\* Variant of GetCatch: the stale branch is taken without the length check.
GetCatch_AlwaysStale(r, table, limit, offset, obs) ==
    StoredResponse(r, "stale_cache", StaleWarning, table, limit, offset, obs)

\* Variant of GetCatch: the stale branch returns every stored record, not the
\* page asked for.
GetCatch_StaleUnpaged(r, table, limit, offset, obs) ==
    LET allCachedRecords == getCachedLaunches(table, MAX_API_LIMIT)
    IN  IF Len(allCachedRecords) > 0
        THEN DataResponse(r, "GET", "stale_cache", TRUE, StaleWarning, allCachedRecords,
                          convertToApiFormat(allCachedRecords), limit, offset, obs)
        ELSE ErrorResponse(r, "GET", "Failed to fetch launch data", limit, offset, obs)

\* GET's catch block.
GetCatch(r, table, limit, offset, obs) ==
    IF Len(getCachedLaunches(table, MAX_API_LIMIT)) > 0
    THEN StoredResponse(r, "stale_cache", StaleWarning, table, limit, offset, obs)
    ELSE ErrorResponse(r, "GET", "Failed to fetch launch data", limit, offset, obs)

\* POST's catch block.
PostCatch(r, limit, offset, obs) ==
    ErrorResponse(r, "POST", "Failed to refresh cache", limit, offset, obs)

\* The two writes of a refresh, in program order.  The second is not reached
\* when the first throws.
CacheFresh(table, meta, batch, t, fault) ==
    LET up == upsertLaunches(table, batch, t, fault = "upsert")
    IN  IF up.thrown
        THEN [wrote |-> "upsert_failed", table |-> up.table, meta |-> meta]
        ELSE IF fault = "meta"
        THEN [wrote |-> "meta_failed", table |-> up.table, meta |-> meta]
        ELSE [wrote |-> "ok", table |-> up.table,
              meta |-> updateCacheMetadata(meta, CACHE_KEY, CACHE_TTL_MINUTES, t)]

\* Variant of NoWrite: an empty batch is taken as the new content of the store
\* and stamped as a refresh.
NoWrite_StoresNothing(table, meta) ==
    [wrote |-> "none", table |-> << >>,
     meta |-> updateCacheMetadata(meta, CACHE_KEY, CACHE_TTL_MINUTES, now)]

NoWrite(table, meta) == [wrote |-> "none", table |-> table, meta |-> meta]

----------------------------------------------------------------------------
Init ==
    /\ launches = << >>
    /\ cache_meta = [k \in Keys |-> NoRow]
    /\ now = 0
    /\ inflight = [r \in Reqs |-> Idle]
    /\ inspector = "idle"
    /\ resp = NoResp

\* Variant of GetBegin: single flight, no fetch starts while one is in flight.
GetBegin_SingleFlight(r, limit, offset) ==
    /\ inflight[r].pc = "idle"
    /\ LET valid == isCacheValid(cache_meta, CACHE_KEY, CACHE_TTL_MINUTES, now)
       IN  IF valid
           THEN /\ resp' = StoredResponse(r, "cache", NoWarning, launches, limit, offset,
                               Obs(0, TRUE, NoOutcome, "none", cache_meta))
                /\ UNCHANGED inflight
           ELSE /\ \A other \in Reqs : inflight[other].pc # "fetching"
                /\ inflight' = [inflight EXCEPT ![r] =
                       [pc |-> "fetching", method |-> "GET", calls |-> 1,
                        valid |-> FALSE]]
                /\ resp' = NoResp
    /\ UNCHANGED <<launches, cache_meta, now, inspector>>

\* GET up to its first await: the validity check, then the hit response or
\* the start of the upstream fetch.
GetBegin(r, limit, offset) ==
    /\ inflight[r].pc = "idle"
    /\ LET valid == isCacheValid(cache_meta, CACHE_KEY, CACHE_TTL_MINUTES, now)
       IN  IF valid
           THEN /\ resp' = StoredResponse(r, "cache", NoWarning, launches, limit, offset,
                               Obs(0, TRUE, NoOutcome, "none", cache_meta))
                /\ UNCHANGED inflight
           ELSE /\ inflight' = [inflight EXCEPT ![r] =
                       [pc |-> "fetching", method |-> "GET", calls |-> 1,
                        valid |-> FALSE]]
                /\ resp' = NoResp
    /\ UNCHANGED <<launches, cache_meta, now, inspector>>

\* Variant of GetFetched: the response is read back from the store.
GetFetched_RereadsStore(r, limit, offset, outcome, fault) ==
    /\ inflight[r].pc = "fetching"
    /\ inflight[r].method = "GET"
    /\ LET thrown == outcome.kind # "ok"
           w == IF ~thrown /\ Len(outcome.results) > 0
                THEN CacheFresh(launches, cache_meta, outcome.results, now, fault)
                ELSE NoWrite(launches, cache_meta)
           obs == Obs(inflight[r].calls, inflight[r].valid, outcome, w.wrote,
                      cache_meta)
       IN  /\ launches' = w.table
           /\ cache_meta' = w.meta
           /\ resp' = IF thrown \/ w.wrote \in {"upsert_failed", "meta_failed"}
                      THEN GetCatch(r, w.table, limit, offset, obs)
                      ELSE StoredResponse(r, "api", NoWarning, w.table, limit, offset, obs)
    /\ inflight' = [inflight EXCEPT ![r] = Idle]
    /\ UNCHANGED <<now, inspector>>

\* GET from the result of the fetch to its response.
GetFetched(r, limit, offset, outcome, fault) ==
    /\ inflight[r].pc = "fetching"
    /\ inflight[r].method = "GET"
    /\ LET thrown == outcome.kind # "ok"
           w == IF ~thrown /\ Len(outcome.results) > 0
                THEN CacheFresh(launches, cache_meta, outcome.results, now, fault)
                ELSE NoWrite(launches, cache_meta)
           obs == Obs(inflight[r].calls, inflight[r].valid, outcome, w.wrote,
                      cache_meta)
       IN  /\ launches' = w.table
           /\ cache_meta' = w.meta
           /\ resp' = IF thrown \/ w.wrote \in {"upsert_failed", "meta_failed"}
                      THEN GetCatch(r, w.table, limit, offset, obs)
                      ELSE DataResponse(r, "GET", "api", FALSE, NoWarning,
                                        outcome.results,
                                        Slice(outcome.results, offset, limit),
                                        limit, offset, obs)
    /\ inflight' = [inflight EXCEPT ![r] = Idle]
    /\ UNCHANGED <<now, inspector>>

\* Variant of PostBegin: the validity check of GET is made first, and a valid
\* cache is answered without a fetch.
PostBegin_ChecksCache(r) ==
    /\ inflight[r].pc = "idle"
    /\ LET valid == isCacheValid(cache_meta, CACHE_KEY, CACHE_TTL_MINUTES, now)
           all == getCachedLaunches(launches, MAX_API_LIMIT)
       IN  IF valid
           THEN /\ resp' = DataResponse(r, "POST", "cache", TRUE, NoWarning, all,
                               convertToApiFormat(all), 10, 0,
                               Obs(0, TRUE, NoOutcome, "none", cache_meta))
                /\ UNCHANGED inflight
           ELSE /\ inflight' = [inflight EXCEPT ![r] =
                       [pc |-> "fetching", method |-> "POST", calls |-> 1,
                        valid |-> FALSE]]
                /\ resp' = NoResp
    /\ UNCHANGED <<launches, cache_meta, now, inspector>>

\* Variant of PostBegin: the fetch is wrapped in a retry, two calls are made.
PostBegin_Retries(r) ==
    /\ inflight[r].pc = "idle"
    /\ inflight' = [inflight EXCEPT ![r] =
           [pc |-> "fetching", method |-> "POST", calls |-> 2,
            valid |-> isCacheValid(cache_meta, CACHE_KEY, CACHE_TTL_MINUTES, now)]]
    /\ resp' = NoResp
    /\ UNCHANGED <<launches, cache_meta, now, inspector>>

\* POST up to its await: the fetch starts whatever the cache holds.
PostBegin(r) ==
    /\ inflight[r].pc = "idle"
    /\ inflight' = [inflight EXCEPT ![r] =
           [pc |-> "fetching", method |-> "POST", calls |-> 1,
            valid |-> isCacheValid(cache_meta, CACHE_KEY, CACHE_TTL_MINUTES, now)]]
    /\ resp' = NoResp
    /\ UNCHANGED <<launches, cache_meta, now, inspector>>

\* POST from the result of the fetch to its response.  A body without
\* results is answered as an empty refresh; results that are not an array
\* throw (in the upsert or in slice).
PostFetched(r, limit, offset, outcome, fault) ==
    /\ inflight[r].pc = "fetching"
    /\ inflight[r].method = "POST"
    /\ LET thrown == outcome.kind \in {"http_error", "transport_error", "not_array"}
           w == IF ~thrown /\ Len(outcome.results) > 0
                THEN CacheFresh(launches, cache_meta, outcome.results, now, fault)
                ELSE NoWrite(launches, cache_meta)
           obs == Obs(inflight[r].calls, inflight[r].valid, outcome, w.wrote,
                      cache_meta)
       IN  /\ launches' = w.table
           /\ cache_meta' = w.meta
           /\ resp' = IF thrown \/ w.wrote \in {"upsert_failed", "meta_failed"}
                      THEN PostCatch(r, limit, offset, obs)
                      ELSE DataResponse(r, "POST", "manual_refresh", FALSE, NoWarning,
                                        outcome.results,
                                        Slice(outcome.results, offset, limit),
                                        limit, offset, obs)
    /\ inflight' = [inflight EXCEPT ![r] = Idle]
    /\ UNCHANGED <<now, inspector>>

\* Time passes.
Tick ==
    /\ now + TickMs <= MaxNow
    /\ now' = now + TickMs
    /\ resp' = NoResp
    /\ UNCHANGED <<launches, cache_meta, inflight, inspector>>

\* Variant of ClearCache: the records are deleted with the metadata.
ClearCache_DeletesRecords ==
    /\ inspector = "idle"
    /\ cache_meta' = [k \in Keys |-> NoRow]
    /\ launches' = << >>
    /\ resp' = NoResp
    /\ UNCHANGED <<now, inflight, inspector>>

\* cache-inspector.js --clear-cache: DELETE FROM cache_meta
ClearCache ==
    /\ inspector = "idle"
    /\ cache_meta' = [k \in Keys |-> NoRow]
    /\ resp' = NoResp
    /\ UNCHANGED <<launches, now, inflight, inspector>>

\* cache-inspector.js --clear-all, first statement: DELETE FROM launches
ClearAllLaunches ==
    /\ inspector = "idle"
    /\ launches' = << >>
    /\ inspector' = "clearing"
    /\ resp' = NoResp
    /\ UNCHANGED <<cache_meta, now, inflight>>

\* cache-inspector.js --clear-all, second statement: DELETE FROM cache_meta
ClearAllMeta ==
    /\ inspector = "clearing"
    /\ cache_meta' = [k \in Keys |-> NoRow]
    /\ inspector' = "idle"
    /\ resp' = NoResp
    /\ UNCHANGED <<launches, now, inflight>>

Next ==
    \/ \E r \in Reqs, w \in Windows : GetBegin(r, w[1], w[2])
    \/ \E r \in Reqs, w \in Windows, f \in Fetches :
           GetFetched(r, w[1], w[2], f.outcome, f.fault)
    \/ \E r \in Reqs : PostBegin(r)
    \/ \E r \in Reqs, w \in Windows, f \in Fetches :
           PostFetched(r, w[1], w[2], f.outcome, f.fault)
    \/ Tick
    \/ ClearCache
    \/ ClearAllLaunches
    \/ ClearAllMeta

Spec == Init /\ [][Next]_vars

\* The window of a request without query parameters: limit 10, offset 0.
DefaultWindow == << 10, 0 >>

\* The upstream call of slot r returns or fails, and the handler runs on from
\* its await.
Fetched(r) ==
    \E f \in Fetches :
        \/ GetFetched(r, DefaultWindow[1], DefaultWindow[2], f.outcome, f.fault)
        \/ PostFetched(r, DefaultWindow[1], DefaultWindow[2], f.outcome, f.fault)

\* The handlers called without query parameters, the clock and --clear-cache.
FairNext ==
    \/ \E r \in Reqs : GetBegin(r, DefaultWindow[1], DefaultWindow[2])
    \/ \E r \in Reqs : PostBegin(r)
    \/ \E r \in Reqs : Fetched(r)
    \/ Tick
    \/ ClearCache

\* Every upstream call returns or fails in the end, and the event loop then
\* resumes the handler that awaits it.
FairSpec == Init /\ [][FairNext]_vars /\ \A r \in Reqs : WF_vars(Fetched(r))

----------------------------------------------------------------------------
(* The metadata operations of lib/database.ts called directly, with any    *)
(* key and any ttlMinutes, as a caller of the exported dbOperations may.   *)

TtlArgs == {15, 30, 60}
MetaKeys == {CACHE_KEY, "other_key"}

MetaInit ==
    /\ launches = << >>
    /\ cache_meta = [k \in MetaKeys |-> NoRow]
    /\ now = 0
    /\ inflight = [r \in Reqs |-> Idle]
    /\ inspector = "idle"
    /\ resp = NoResp

\* dbOperations.updateCacheMetadata(cacheKey, ttlMinutes)
MetaTouch(cacheKey, ttlMinutes) ==
    /\ cache_meta' = updateCacheMetadata(cache_meta, cacheKey, ttlMinutes, now)
    /\ UNCHANGED <<launches, now, inflight, inspector, resp>>

\* DELETE FROM cache_meta
MetaClear ==
    /\ cache_meta' = [k \in MetaKeys |-> NoRow]
    /\ UNCHANGED <<launches, now, inflight, inspector, resp>>

MetaNext ==
    \/ \E k \in MetaKeys, ttl \in TtlArgs : MetaTouch(k, ttl)
    \/ MetaClear
    \/ Tick

MetaSpec == MetaInit /\ [][MetaNext]_vars

----------------------------------------------------------------------------
(* upsertLaunches statement by statement: db.transaction runs BEGIN, one   *)
(* INSERT OR REPLACE per launch, then COMMIT, or ROLLBACK when a statement *)
(* throws.  Inside the server nothing runs between the statements; a       *)
(* process with its own connection to launches.db (another server worker,  *)
(* the inspector) can read between them, and reads the committed table.    *)
(* Slot r of inflight holds the connection's transaction: the batch, the   *)
(* next statement i, the time bound to the rows and the uncommitted table. *)

TxnBatches == {BatchA, BatchB, BatchBad}

TxnInit ==
    /\ launches = << >>
    /\ cache_meta = [k \in Keys |-> NoRow]
    /\ now = 0
    /\ inflight = [r \in Reqs |-> Idle]
    /\ inspector = "idle"
    /\ resp = NoResp

\* const now = Date.now(); BEGIN.  SQLite admits one writer at a time.
TxnBegin(r, batch) ==
    /\ \A other \in Reqs : inflight[other].pc = "idle"
    /\ inflight' = [inflight EXCEPT ![r] =
           [pc |-> "writing", method |-> "-", calls |-> 0, valid |-> FALSE,
            batch |-> batch, i |-> 1, t |-> now, work |-> launches]]
    /\ resp' = NoResp
    /\ UNCHANGED <<launches, cache_meta, now, inspector>>

\* Variant of TxnRun: no transaction, each statement commits on its own.
TxnRun_Autocommit(r) ==
    /\ inflight[r].pc = "writing"
    /\ inflight[r].i <= Len(inflight[r].batch)
    /\ LET launch == inflight[r].batch[inflight[r].i]
           table == InsertOrReplace(inflight[r].work, ToRow(launch, inflight[r].t))
       IN  IF RunFails(launch)
           THEN /\ inflight' = [inflight EXCEPT ![r] = Idle]
                /\ UNCHANGED launches
           ELSE /\ inflight' = [inflight EXCEPT ![r].work = table,
                                                ![r].i = inflight[r].i + 1]
                /\ launches' = table
    /\ resp' = NoResp
    /\ UNCHANGED <<cache_meta, now, inspector>>

\* stmt.run for the next launch of the batch: the row goes to the uncommitted
\* table, or the statement throws and the transaction is rolled back.
TxnRun(r) ==
    /\ inflight[r].pc = "writing"
    /\ inflight[r].i <= Len(inflight[r].batch)
    /\ LET launch == inflight[r].batch[inflight[r].i]
       IN  IF RunFails(launch)
           THEN inflight' = [inflight EXCEPT ![r] = Idle]
           ELSE inflight' = [inflight EXCEPT
                    ![r].work = InsertOrReplace(inflight[r].work,
                                                ToRow(launch, inflight[r].t)),
                    ![r].i = inflight[r].i + 1]
    /\ resp' = NoResp
    /\ UNCHANGED <<launches, cache_meta, now, inspector>>

\* COMMIT after the last statement.
TxnCommit(r) ==
    /\ inflight[r].pc = "writing"
    /\ inflight[r].i > Len(inflight[r].batch)
    /\ launches' = inflight[r].work
    /\ inflight' = [inflight EXCEPT ![r] = Idle]
    /\ resp' = NoResp
    /\ UNCHANGED <<cache_meta, now, inspector>>

\* A read on another connection: getCachedLaunches(MAX_API_LIMIT) and the
\* page built from it, as on the hit path, the stale path and in the
\* histogram.
TxnRead(r) ==
    /\ inflight[r].pc = "idle"
    /\ resp' = StoredResponse(r, "cache", NoWarning, launches,
                              DefaultWindow[1], DefaultWindow[2],
                              Obs(0, TRUE, NoOutcome, "none", cache_meta))
    /\ UNCHANGED <<launches, cache_meta, now, inflight, inspector>>

TxnNext ==
    \/ \E r \in Reqs, batch \in TxnBatches : TxnBegin(r, batch)
    \/ \E r \in Reqs : TxnRun(r)
    \/ \E r \in Reqs : TxnCommit(r)
    \/ \E r \in Reqs : TxnRead(r)
    \/ Tick

TxnSpec == TxnInit /\ [][TxnNext]_vars

----------------------------------------------------------------------------
(* The upstream answer and the handler's resumption as two steps.  The     *)
(* handler awaits fetch and then response.json(): the data of a response   *)
(* is fixed when upstream produces it, the handler writes it when the      *)
(* event loop resumes it, and other handlers run in between.  Upstream     *)
(* publishes BatchA first and BatchB, with its later version of L1, from   *)
(* the first tick on.                                                      *)

UpstreamAt(t) == IF t < TickMs THEN BatchA ELSE BatchB

RaceInit ==
    /\ launches = << >>
    /\ cache_meta = [k \in Keys |-> NoRow]
    /\ now = 0
    /\ inflight = [r \in Reqs |-> Idle]
    /\ inspector = "idle"
    /\ resp = NoResp

\* Upstream produces the response to slot r's request.
RaceAnswered(r) ==
    /\ inflight[r].pc = "fetching"
    /\ "results" \notin DOMAIN inflight[r]
    /\ inflight' = [inflight EXCEPT ![r] =
           [pc |-> "fetching", method |-> inflight[r].method,
            calls |-> inflight[r].calls, valid |-> inflight[r].valid,
            results |-> UpstreamAt(now)]]
    /\ resp' = NoResp
    /\ UNCHANGED <<launches, cache_meta, now, inspector>>

\* The handler of slot r resumes with the response it was sent.
RaceResumed(r) ==
    /\ inflight[r].pc = "fetching"
    /\ "results" \in DOMAIN inflight[r]
    /\ LET outcome == [kind |-> "ok", results |-> inflight[r].results]
       IN  \/ GetFetched(r, DefaultWindow[1], DefaultWindow[2], outcome, "none")
           \/ PostFetched(r, DefaultWindow[1], DefaultWindow[2], outcome, "none")

RaceNext ==
    \/ \E r \in Reqs : GetBegin(r, DefaultWindow[1], DefaultWindow[2])
    \/ \E r \in Reqs : PostBegin(r)
    \/ \E r \in Reqs : RaceAnswered(r)
    \/ \E r \in Reqs : RaceResumed(r)
    \/ Tick

RaceSpec == RaceInit /\ [][RaceNext]_vars

----------------------------------------------------------------------------
(* The handlers on a store that already holds records of earlier           *)
(* refreshes.  Nothing in the server deletes a record, so launches that    *)
(* have left the upstream listing stay in the table, with nets before      *)
(* those of the launches to come.                                          *)

\* Records the store may hold from earlier refreshes.
PriorSizes == {0, MAX_API_LIMIT - 1, MAX_API_LIMIT}

\* n past launches, none of them in a batch of today.
PriorStore(n) ==
    [i \in 1..n |-> ToRow(ApiRec("P" \o ToString(i), "past", 0 - i, "Success"), 0)]

BacklogInit ==
    /\ launches \in { PriorStore(n) : n \in PriorSizes }
    /\ cache_meta = [k \in Keys |-> NoRow]
    /\ now = 0
    /\ inflight = [r \in Reqs |-> Idle]
    /\ inspector = "idle"
    /\ resp = NoResp

BacklogNext ==
    \/ \E r \in Reqs : GetBegin(r, DefaultWindow[1], DefaultWindow[2])
    \/ \E r \in Reqs, batch \in {BatchA, BatchB} :
           GetFetched(r, DefaultWindow[1], DefaultWindow[2],
                      [kind |-> "ok", results |-> batch], "none")
    \/ Tick

BacklogSpec == BacklogInit /\ [][BacklogNext]_vars

----------------------------------------------------------------------------
(* GET over every page window of small size, the empty page included: limit *)
(* and offset are whatever parseInt reads from the query string.            *)

MaxLimit == 2
MaxOffset == 3

PageWindows == (0..MaxLimit) \X (0..MaxOffset)

PagingNext ==
    \/ \E r \in Reqs, w \in PageWindows : GetBegin(r, w[1], w[2])
    \/ \E r \in Reqs, w \in PageWindows, batch \in {BatchA, BatchB} :
           GetFetched(r, w[1], w[2], [kind |-> "ok", results |-> batch], "none")
    \/ Tick

PagingSpec == Init /\ [][PagingNext]_vars

----------------------------------------------------------------------------
(* The histogram route.  A net is read as a day number, so that 7 days are *)
(* 7 units; the label of a bucket, a rendering of its start, is left out.  *)

HistogramLimit == 100
BucketDays == 7

\* Variant of Bucket: the end of the window is taken in.
Bucket_ClosedEnd(bucketStart, sortedLaunches) ==
    LET bucketEnd == bucketStart + BucketDays
        launchesInBucket ==
            SelectSeq(sortedLaunches,
                      LAMBDA launch : launch.net >= bucketStart /\ launch.net <= bucketEnd)
    IN  [startDate |-> bucketStart, endDate |-> bucketEnd,
         count |-> Len(launchesInBucket),
         launchIds |-> [i \in 1..Len(launchesInBucket) |-> launchesInBucket[i].id]]

\* One pass of the loop body: the bucket that starts at bucketStart.
Bucket(bucketStart, sortedLaunches) ==
    LET bucketEnd == bucketStart + BucketDays
        launchesInBucket ==
            SelectSeq(sortedLaunches,
                      LAMBDA launch : launch.net >= bucketStart /\ launch.net < bucketEnd)
    IN  [startDate |-> bucketStart, endDate |-> bucketEnd,
         count |-> Len(launchesInBucket),
         launchIds |-> [i \in 1..Len(launchesInBucket) |-> launchesInBucket[i].id]]

RECURSIVE BucketsFrom(_, _, _)
\* while (currentDate <= lastDate) { push the bucket; currentDate += 7 days }
BucketsFrom(currentDate, lastDate, sortedLaunches) ==
    IF currentDate <= lastDate
    THEN << Bucket(currentDate, sortedLaunches) >>
             \o BucketsFrom(currentDate + BucketDays, lastDate, sortedLaunches)
    ELSE << >>

\* The JSON body of the histogram route for the store as it is.
HistogramResponse(r, method, table) ==
    LET launchRecords == getCachedLaunches(table, HistogramLimit)
        all == convertToApiFormat(launchRecords)
    IN  IF Len(all) = 0
        THEN [req |-> r, method |-> method, status |-> 200, source |-> "cache",
              buckets |-> << >>, total_launches |-> 0]
        ELSE LET sortedLaunches == OrderByNet(all)
                 firstDate == sortedLaunches[1].net
                 lastDate == sortedLaunches[Len(sortedLaunches)].net
             IN  [req |-> r, method |-> method, status |-> 200, source |-> "cache",
                  buckets |-> BucketsFrom(firstDate, lastDate, sortedLaunches),
                  total_launches |-> Len(all)]

\* GET and POST of the histogram route: no await, one step.
Histogram(r, method) ==
    /\ inflight[r].pc = "idle"
    /\ resp' = HistogramResponse(r, method, launches)
    /\ UNCHANGED <<launches, cache_meta, now, inflight, inspector>>

MaxHistRows == 3
HistNets == {0, 6, 7, 14, 15}
HistIds == << "L1", "L2", "L3" >>

\* The stores of at most MaxHistRows rows with nets of HistNets, in every
\* rowid order, alone or after HistogramLimit rows of earlier launches.
HistStores ==
    { prior \o [i \in 1..n |-> ToRow(ApiRec(HistIds[i], "h", nets[i], Absent), 0)] :
        prior \in { << >>, PriorStore(HistogramLimit) },
        n \in 0..MaxHistRows, nets \in [1..MaxHistRows -> HistNets] }

HistogramInit ==
    /\ launches \in HistStores
    /\ cache_meta = [k \in Keys |-> NoRow]
    /\ now = 0
    /\ inflight = [r \in Reqs |-> Idle]
    /\ inspector = "idle"
    /\ resp = NoResp

HistogramNext ==
    \/ \E r \in Reqs : Histogram(r, "GET")
    \/ \E r \in Reqs : Histogram(r, "POST")

HistogramSpec == HistogramInit /\ [][HistogramNext]_vars

----------------------------------------------------------------------------
(* Properties                                                              *)

\* The validity of the cache as the tables and the clock give it.
RowValid ==
    /\ cache_meta[CACHE_KEY] # NoRow
    /\ now < cache_meta[CACHE_KEY].expires_at

Answered(method) == resp.req # 0 /\ resp.method = method

\* The ways an upstream round trip fails for GET.
GetFailures == {"http_error", "transport_error", "no_results", "not_array"}

\* The ways an upstream round trip fails for POST.
PostFailures == {"http_error", "transport_error", "not_array"}

\* The stored row that launch should have become.
Stored(launch, table) ==
    \E i \in 1..Len(table) :
        /\ table[i].id = launch.id
        /\ table[i].name = launch.name
        /\ table[i].net = launch.net
        /\ launch.status # Absent => table[i].status_name = launch.status

HoldsBatch(batch, table) == \A i \in 1..Len(batch) : Stored(batch[i], table)

\* Every result is a stored record in API format.
FromStore(results, table) ==
    \A i \in 1..Len(results) :
        \E j \in 1..Len(table) :
            /\ results[i].id = table[j].id
            /\ results[i].name = table[j].name
            /\ results[i].net = table[j].net
            /\ results[i].status = table[j].status_name

FreshRow == [last_updated |-> now, expires_at |-> now + TTL_MS]

\* A slot starts its upstream fetch in this step.
StartsFetch(r, method) ==
    /\ inflight[r].pc = "idle"
    /\ inflight'[r].pc = "fetching"
    /\ inflight'[r].method = method

C1_Answer ==
    Answered("GET") =>
        /\ resp.obs.calls \in {0, 1}
        /\ (resp.source = "cache") <=> (resp.obs.calls = 0)
        /\ resp.source = "cache" => (resp.cached /\ RowValid)

C1_Step ==
    /\ \A r \in Reqs : StartsFetch(r, "GET") => (~RowValid /\ inflight'[r].calls = 1)
    /\ \A r \in Reqs :
           inflight'[r].calls # inflight[r].calls =>
               (inflight[r].pc = "idle" \/ inflight'[r].pc = "idle")
    /\ (resp'.req # 0 /\ resp'.source = "cache") => RowValid

\* C1: a GET calls upstream once when the validity check fails at the moment
\* of the request and never when it succeeds; a GET answered without a call is
\* tagged cache with cached = true; no step other than the start of a request
\* starts an upstream call.
C1_GetCallsUpstreamOnlyOnMiss == []C1_Answer /\ [][C1_Step]_vars

C1_Witness ==
    /\ Answered("GET")
    /\ resp.source = "cache"
    /\ resp.count > 0
    /\ now > cache_meta[CACHE_KEY].last_updated

\* C2: isCacheValid(key) is true exactly when a cache_meta row exists for key
\* and the current time is strictly less than its expires_at.
C2_IsCacheValidIffRowAndNotExpired ==
    \A k \in Keys :
        isCacheValid(cache_meta, k, CACHE_TTL_MINUTES, now)
            <=> (cache_meta[k] # NoRow /\ now < cache_meta[k].expires_at)

\* The instant of expiry itself: a row exists and the check fails.
C2_Witness ==
    /\ cache_meta[CACHE_KEY] # NoRow
    /\ now = cache_meta[CACHE_KEY].expires_at
    /\ ~isCacheValid(cache_meta, CACHE_KEY, CACHE_TTL_MINUTES, now)

C3_Written ==
    /\ HoldsBatch(resp.obs.batch, launches)
    /\ cache_meta[CACHE_KEY] = FreshRow
    /\ RowValid

\* C3 as stated: after a GET on an invalid cache whose upstream fetch succeeds
\* with a non-empty batch, the store holds every record of the batch and the
\* metadata row is (now, now + TTL).
C3_Original ==
    (Answered("GET") /\ resp.obs.fetched = "ok" /\ resp.obs.batch # << >>)
        => C3_Written

\* C3 amended: the same, for a GET whose two writes both succeed (the GET that
\* answers source = api with a non-empty batch).
C3_FreshGetWritesBatchAndMeta ==
    (Answered("GET") /\ resp.source = "api" /\ resp.count > 0) => C3_Written

\* A refresh over a store that already held other records.
C3_Witness ==
    /\ Answered("GET")
    /\ resp.source = "api"
    /\ resp.obs.batch = BatchB
    /\ Len(launches) = 3

\* C4: on upstream failure during a GET with a non-empty store the response
\* is tagged stale_cache with cached = true and a warning, and its records are
\* records of the store.
C4_StaleFallback ==
    (Answered("GET") /\ resp.obs.fetched \in GetFailures /\ launches # << >>) =>
        /\ resp.status = 200
        /\ resp.source = "stale_cache"
        /\ resp.cached
        /\ resp.warning # NoWarning
        /\ resp.count = Len(launches)
        /\ FromStore(resp.results, launches)
        /\ (resp.offset = 0 /\ resp.limit >= resp.count) => Len(resp.results) = resp.count

C4_Witness ==
    /\ Answered("GET")
    /\ resp.obs.fetched = "transport_error"
    /\ resp.source = "stale_cache"
    /\ Len(resp.results) = 3
    /\ ~RowValid

\* C5: on upstream failure during a GET with an empty store the call ends in
\* an error response (500, no results, cached = false), and no response tagged
\* stale_cache is an empty page of an empty store.
C5_NoDataIsAnError ==
    /\ (Answered("GET") /\ resp.obs.fetched \in GetFailures /\ launches = << >>) =>
           /\ resp.status = 500
           /\ resp.source = "-"
           /\ resp.results = << >>
           /\ ~resp.cached
    /\ (resp.req # 0 /\ resp.source = "stale_cache") => resp.count > 0

C5_Witness ==
    /\ Answered("GET")
    /\ resp.obs.fetched = "http_error"
    /\ resp.status = 500
    /\ launches = << >>

\* C6 as stated: a forced refresh whose upstream call fails returns the stored
\* records tagged stale_cache with a warning when the store is non-empty.
C6_PostFallsBackToStale ==
    (Answered("POST") /\ resp.obs.fetched \in PostFailures /\ launches # << >>) =>
        /\ resp.source = "stale_cache"
        /\ resp.warning # NoWarning
        /\ resp.count = Len(launches)
        /\ FromStore(resp.results, launches)

C7_Calls == Answered("POST") => resp.obs.calls = 1

\* C7 as stated: a forced refresh always calls upstream, and on upstream
\* success its response is tagged manual_refresh with cached = false.
C7_Original ==
    /\ C7_Calls
    /\ (Answered("POST") /\ resp.obs.fetched = "ok") =>
           (resp.source = "manual_refresh" /\ ~resp.cached)

\* C7 amended: a forced refresh always calls upstream, valid cache or not, and
\* on upstream success, unless a cache write fails, its response is tagged
\* manual_refresh with cached = false; with a failed write it is the error
\* response.
C7_PostAlwaysFetches ==
    /\ C7_Calls
    /\ \A r \in Reqs : inflight[r].method = "POST" =>
           (inflight[r].pc = "fetching" /\ inflight[r].calls = 1)
    /\ (Answered("POST") /\ resp.obs.fetched = "ok"
           /\ resp.obs.wrote \in {"ok", "none"}) =>
           (resp.status = 200 /\ resp.source = "manual_refresh" /\ ~resp.cached)
    /\ (Answered("POST") /\ resp.obs.wrote \in {"upsert_failed", "meta_failed"}) =>
           resp.status = 500

\* A forced refresh that began on a valid cache and was answered from upstream.
C7_Witness ==
    /\ Answered("POST")
    /\ resp.obs.valid
    /\ resp.obs.calls = 1
    /\ resp.source = "manual_refresh"
    /\ resp.count > 0

\* C8 as stated: every forced refresh whose upstream fetch succeeds leaves an
\* expires_at strictly greater than the one before it, or creates the row.
C8_Original ==
    (Answered("POST") /\ resp.obs.fetched = "ok") =>
        /\ cache_meta[CACHE_KEY] # NoRow
        /\ resp.obs.meta_before # NoRow =>
               cache_meta[CACHE_KEY].expires_at > resp.obs.meta_before.expires_at

\* C8 amended: a forced refresh that fetched a non-empty batch and wrote it
\* leaves expires_at = now + TTL, never less than the one before it, and
\* strictly greater when the clock has moved since the row was last written.
C8_RefreshAdvancesExpiry ==
    (Answered("POST") /\ resp.source = "manual_refresh" /\ resp.count > 0) =>
        /\ cache_meta[CACHE_KEY] = FreshRow
        /\ cache_meta[CACHE_KEY].expires_at >= resp.obs.meta_before.expires_at
        /\ (resp.obs.meta_before # NoRow /\ resp.obs.meta_before.last_updated < now) =>
               cache_meta[CACHE_KEY].expires_at > resp.obs.meta_before.expires_at

\* A forced refresh over a row written at an earlier instant.
C8_Witness ==
    /\ Answered("POST")
    /\ resp.source = "manual_refresh"
    /\ resp.count > 0
    /\ resp.obs.meta_before # NoRow
    /\ resp.obs.meta_before.last_updated < now

\* C9 as stated: a refresh never changes the store without setting the
\* metadata of the key, and never sets the metadata without storing the batch.
C9_WritesAreAtomic ==
    [][resp'.req # 0 =>
         /\ launches' # launches => cache_meta'[CACHE_KEY] = FreshRow
         /\ cache_meta' # cache_meta => HoldsBatch(resp'.obs.batch, launches')]_vars

\* The response of GET's catch block over a given store.
C10_Fallback(table) ==
    IF table = << >>
    THEN resp'.status = 500
    ELSE /\ resp'.source = "stale_cache"
         /\ resp'.count = Len(table)
         /\ FromStore(resp'.results, table)

\* C10 as stated: when the upsert or the metadata write fails during a GET
\* refresh, the metadata is not advanced, the fetched batch is not returned,
\* and the fallback is taken over the store as it was (stale_cache if it was
\* non-empty, the error otherwise).
C10_WriteFailureDiscardsBatch ==
    [][(resp'.req # 0 /\ resp'.method = "GET"
          /\ resp'.obs.wrote \in {"upsert_failed", "meta_failed"}) =>
         /\ cache_meta' = cache_meta
         /\ resp'.source # "api"
         /\ C10_Fallback(launches)]_vars

\* C11 as stated: a non-success status, a transport error and a response
\* without an array of entries are one upstream failure in GET and in POST:
\* none writes to either store and none is answered api or manual_refresh.
C11_FailuresAreUniform ==
    [][(resp'.req # 0 /\ resp'.obs.fetched \in GetFailures) =>
         /\ launches' = launches
         /\ cache_meta' = cache_meta
         /\ resp'.source \notin {"api", "manual_refresh"}]_vars

\* C12: every row of cache_meta has expires_at = last_updated + TTL in
\* milliseconds.
C12_ExpiresIsUpdatedPlusTtl ==
    \A k \in Keys :
        cache_meta[k] # NoRow =>
            /\ cache_meta[k].last_updated >= 0
            /\ cache_meta[k].expires_at = cache_meta[k].last_updated + TTL_MS

\* A row rewritten by a later refresh.
C12_Witness ==
    /\ cache_meta[CACHE_KEY] # NoRow
    /\ cache_meta[CACHE_KEY].last_updated > 0
    /\ resp.req # 0
    /\ resp.obs.wrote = "ok"
    /\ resp.obs.meta_before # NoRow

C13_State ==
    \A k \in MetaKeys, ttl \in TtlArgs :
        cache_meta[k] # NoRow =>
            (isCacheValid(cache_meta, k, ttl, now) <=> now < cache_meta[k].expires_at)

C13_Step ==
    \A k \in MetaKeys, ttl \in TtlArgs :
        (cache_meta'[k] # cache_meta[k] /\ cache_meta'[k] # NoRow) =>
            /\ cache_meta'[k].last_updated = now'
            /\ isCacheValid(cache_meta', k, ttl, now')

\* C13: for every key and every TTL > 0, isCacheValid(key) is true right
\* after updateCacheMetadata(key, ttl), true at every later time before
\* expires_at and false from expires_at on, until the row is written again.
C13_ValidFromWriteToExpiry == []C13_State /\ [][C13_Step]_vars

\* One row written with a TTL of 60 minutes and still valid after a tick,
\* another at the instant of its expiry.
C13_Witness ==
    \E k1, k2 \in MetaKeys :
        /\ cache_meta[k1] # NoRow
        /\ cache_meta[k1].expires_at = cache_meta[k1].last_updated + 60 * 60 * 1000
        /\ cache_meta[k1].last_updated < now
        /\ isCacheValid(cache_meta, k1, CACHE_TTL_MINUTES, now)
        /\ cache_meta[k2] # NoRow
        /\ cache_meta[k2].expires_at = now
        /\ ~isCacheValid(cache_meta, k2, CACHE_TTL_MINUTES, now)

\* C14: the answer of isCacheValid is the same for every ttl argument, and
\* the same for two rows with the same expires_at whenever they were written:
\* it depends on the stored expires_at and the clock only.
C14_TtlArgumentIgnored ==
    \A k1, k2 \in MetaKeys, ttl1, ttl2 \in TtlArgs :
        (cache_meta[k1] # NoRow /\ cache_meta[k2] # NoRow
            /\ cache_meta[k1].expires_at = cache_meta[k2].expires_at) =>
            isCacheValid(cache_meta, k1, ttl1, now) = isCacheValid(cache_meta, k2, ttl2, now)

\* Two rows written at different instants with different TTLs that expire
\* together: valid now, though one is older than the shortest TTL.
C14_Witness ==
    \E k1, k2 \in MetaKeys :
        /\ cache_meta[k1] # NoRow
        /\ cache_meta[k2] # NoRow
        /\ cache_meta[k1].expires_at = cache_meta[k2].expires_at
        /\ cache_meta[k1].last_updated < cache_meta[k2].last_updated
        /\ now >= cache_meta[k1].last_updated + 15 * 60 * 1000
        /\ isCacheValid(cache_meta, k1, 15, now)

\* The instants the clock can show.
Clock == { i * TickMs : i \in 0..MaxTicks }

\* A row without its write timestamps.
Fields(row) ==
    [id |-> row.id, name |-> row.name, net |-> row.net, status_name |-> row.status_name]

FieldsOf(table) == [i \in 1..Len(table) |-> Fields(table[i])]

\* table is a store to which batch has just been applied once, at t0: its
\* last rows are the rows of the batch, in batch order, written at t0.
C15_AppliedOnce(batch, table) ==
    /\ Len(batch) > 0
    /\ Len(table) >= Len(batch)
    /\ \E t0 \in Clock :
         \A i \in 1..Len(batch) :
             table[Len(table) - Len(batch) + i] = ToRow(batch[i], t0)

\* This step is a refresh that applies to the store the batch it already holds.
C15_AppliesAgain ==
    /\ resp'.req # 0
    /\ resp'.obs.wrote \in {"ok", "meta_failed"}
    /\ C15_AppliedOnce(resp'.obs.batch, launches)

\* C15 as stated: applying the same batch a second time leaves the store as
\* the first application left it, every field of every record included.
C15_Original == [][C15_AppliesAgain => launches' = launches]_vars

\* C15, amended: applying the same batch a second time leaves the same records
\* in the same order with the same field values, except created_at and
\* updated_at, which become the time of the second application.
C15_UpsertIdempotentButTimestamps ==
    [][C15_AppliesAgain =>
         /\ FieldsOf(launches') = FieldsOf(launches)
         /\ \A i \in 1..Len(launches') :
              IF i > Len(launches') - Len(resp'.obs.batch)
              THEN launches'[i].created_at = now /\ launches'[i].updated_at = now
              ELSE launches'[i] = launches[i]]_vars

\* A refresh has just written, at a later instant, the batch that the previous
\* refresh wrote and that the store has held since.
C15_Witness ==
    /\ resp.req # 0
    /\ resp.obs.wrote = "ok"
    /\ inspector = "idle"
    /\ resp.obs.meta_before # NoRow
    /\ resp.obs.meta_before.last_updated < now
    /\ Len(launches) = Len(resp.obs.batch)
    /\ C15_AppliedOnce(resp.obs.batch, launches)

\* C16: when a statement of upsertLaunches fails for one record of the batch,
\* or the transaction cannot commit, the table launches is exactly what it was
\* before the call: no record of the batch is stored.
C16_UpsertAllOrNothing ==
    [][(resp'.req # 0 /\ resp'.obs.wrote = "upsert_failed") => launches' = launches]_vars

\* The second record of the batch failed after the first had been written
\* inside the transaction; the store is not empty and lacks the first one.
C16_Witness ==
    /\ resp.req # 0
    /\ resp.obs.wrote = "upsert_failed"
    /\ resp.obs.batch = BatchBad
    /\ ~RunFails(BatchBad[1])
    /\ RunFails(BatchBad[2])
    /\ Len(launches) > 0
    /\ ~Stored(BatchBad[1], launches)

C17_OneRecordPerId ==
    \A i, j \in 1..Len(launches) : launches[i].id = launches[j].id => i = j

C17_Replaced ==
    (resp'.req # 0 /\ resp'.obs.wrote \in {"ok", "meta_failed"}) =>
        \A i \in 1..Len(resp'.obs.batch) :
            LET launch == resp'.obs.batch[i]
            IN  \A j \in 1..Len(launches') :
                    launches'[j].id = launch.id =>
                        /\ launches'[j].name = launch.name
                        /\ launches'[j].net = launch.net
                        /\ launches'[j].status_name =
                               (IF launch.status = Absent THEN "Unknown" ELSE launch.status)
                        /\ launches'[j].created_at = now
                        /\ launches'[j].updated_at = now

\* C17: the table launches never holds two rows with one id, and after a
\* refresh has written its batch, the row of every id of the batch (one that
\* was stored before included) has every column as bound from the batch;
\* nothing of the previous row is left.
C17_OneRecordPerIdReplaced == []C17_OneRecordPerId /\ [][C17_Replaced]_vars

\* BatchA has just been written over a store that held BatchB: L1 was there
\* with a status and now has the default one.
C17_Witness ==
    /\ resp.req # 0
    /\ resp.obs.wrote = "ok"
    /\ resp.obs.batch = BatchA
    /\ \E j \in 1..Len(launches) : launches[j].id = "L3"
    /\ \E i \in 1..Len(BatchA), k \in 1..Len(BatchB) :
         /\ BatchA[i].id = BatchB[k].id
         /\ BatchA[i].status = Absent
         /\ BatchB[k].status # Absent
         /\ \E j \in 1..Len(launches) :
              launches[j].id = BatchA[i].id /\ launches[j].status_name = "Unknown"

\* The values of max the listing is asked for: none, fewer than the store
\* holds, as many, more.
LimitArgs == 0..4

\* C18: for the store as it is and every max >= 0, getCachedLaunches(max)
\* returns Min(max, size of the store) rows, each a different row of the
\* store, in non-decreasing order of net, and no row left out has a smaller
\* net than a row returned.
C18_ListOrdered ==
    \A max \in LimitArgs :
        LET out == getCachedLaunches(launches, max)
            In(row) == \E i \in 1..Len(out) : out[i] = row
        IN  /\ Len(out) <= max
            /\ Len(out) = Min(max, Len(launches))
            /\ \A i \in 1..Len(out) : \E j \in 1..Len(launches) : out[i] = launches[j]
            /\ \A i, k \in 1..Len(out) : out[i].id = out[k].id => i = k
            /\ \A i, k \in 1..Len(out) : i < k => out[i].net <= out[k].net
            /\ \A j \in 1..Len(launches) :
                 ~In(launches[j]) => \A i \in 1..Len(out) : out[i].net <= launches[j].net

\* A read served from a store of three rows that are not in net order and
\* two of which have the same net; a max of 2 leaves one row out.
C18_Witness ==
    /\ resp.req # 0
    /\ resp.source \in {"cache", "stale_cache"}
    /\ Len(launches) = 3
    /\ launches # OrderByNet(launches)
    /\ \E i, j \in 1..Len(launches) : i # j /\ launches[i].net = launches[j].net
    /\ Len(getCachedLaunches(launches, 2)) = 2

DataSources == {"cache", "api", "stale_cache", "manual_refresh"}

\* C19: in every response that carries data, whatever its source, next is
\* non-null exactly when offset + limit < count and previous is non-null
\* exactly when offset > 0; when offset = count or offset > count the
\* response is a 200 with an empty result list.
C19_PaginationLinks ==
    (resp.req # 0 /\ resp.source \in DataSources) =>
        /\ resp.status = 200
        /\ resp.error = ""
        /\ (resp.next # NoLink) <=> (resp.offset + resp.limit < resp.count)
        /\ (resp.previous # NoLink) <=> (resp.offset > 0)
        /\ resp.next # NoLink => resp.next = resp.offset + resp.limit
        /\ resp.offset >= resp.count => resp.results = << >>

\* A page asked for at offset = count of a non-empty listing: empty, with a
\* previous link and no next link.
C19_Witness ==
    /\ resp.req # 0
    /\ resp.source \in DataSources
    /\ resp.count > 0
    /\ resp.offset = resp.count
    /\ resp.results = << >>
    /\ resp.previous # NoLink
    /\ resp.next = NoLink

\* C20: a response of source api or manual_refresh has count = the size of
\* the fetched batch and results = the records offset+1 .. offset+limit of the
\* batch as upstream sent them, in upstream order, whatever else the store
\* holds.
C20_FreshResponseIsTheBatch ==
    (resp.req # 0 /\ resp.source \in {"api", "manual_refresh"}) =>
        LET batch == resp.obs.batch
            n == Max(0, Min(resp.limit, Len(batch) - resp.offset))
        IN  /\ resp.count = Len(batch)
            /\ Len(resp.results) = n
            /\ \A i \in 1..n : resp.results[i] = batch[resp.offset + i]

\* A fresh GET of BatchA, second page, while the store holds a third record
\* and lists the records in another order than upstream sent them.
C20_Witness ==
    /\ resp.req # 0
    /\ resp.source = "api"
    /\ resp.obs.batch = BatchA
    /\ resp.offset = 1
    /\ resp.results = << BatchA[2] >>
    /\ Len(launches) = 3
    /\ convertToApiFormat(getCachedLaunches(launches, MAX_API_LIMIT))[2].id # BatchA[2].id

\* The stores are as a GET that fetched batch into an empty store left them:
\* the rows of the batch and nothing else, all written when the metadata row
\* was.
C21_AfterFirstGet(batch) ==
    /\ Len(batch) > 0
    /\ cache_meta[CACHE_KEY] # NoRow
    /\ cache_meta[CACHE_KEY].expires_at = cache_meta[CACHE_KEY].last_updated + TTL_MS
    /\ Len(launches) = Len(batch)
    /\ \A i \in 1..Len(batch) :
         launches[i] = ToRow(batch[i], cache_meta[CACHE_KEY].last_updated)

\* The response lists the n records of the batch: count = n, every result is
\* a record of the batch by id, name, net and status, and the whole page is
\* all n of them.
C21_SameRecords(r, batch) ==
    /\ r.status = 200
    /\ r.count = Len(batch)
    /\ \A i \in 1..Len(r.results) :
         \E k \in 1..Len(batch) :
             /\ r.results[i].id = batch[k].id
             /\ r.results[i].name = batch[k].name
             /\ r.results[i].net = batch[k].net
             /\ batch[k].status # Absent => r.results[i].status = batch[k].status
    /\ \A i, j \in 1..Len(r.results) : r.results[i].id = r.results[j].id => i = j
    /\ (r.offset = 0 /\ r.limit >= Len(batch)) => Len(r.results) = Len(batch)

C21_BeforeExpiry ==
    \A batch \in Batches :
        (C21_AfterFirstGet(batch) /\ now < cache_meta[CACHE_KEY].expires_at) =>
            /\ \A r \in Reqs : ~StartsFetch(r, "GET")
            /\ (resp'.req # 0 /\ resp'.method = "GET" /\ inflight[resp'.req].pc = "idle") =>
                   /\ resp'.source = "cache"
                   /\ resp'.obs.calls = 0
                   /\ C21_SameRecords(resp', batch)

C21_AfterExpiry ==
    \A batch \in Batches :
        (/\ C21_AfterFirstGet(batch)
         /\ now >= cache_meta[CACHE_KEY].expires_at
         /\ resp'.req # 0 /\ resp'.method = "GET"
         /\ resp'.obs.fetched \in GetFailures) =>
            /\ resp'.source = "stale_cache"
            /\ resp'.cached
            /\ resp'.warning # NoWarning
            /\ C21_SameRecords(resp', batch)

\* C21: once a GET has fetched n records into an empty store, and while the
\* stores stay as it left them, every GET invoked before expires_at answers
\* source = cache with those n records and starts no fetch, and every GET
\* whose fetch fails from expires_at on answers source = stale_cache with
\* cached = true, a warning and those n records.
C21_ApiThenCacheThenStale == [][C21_BeforeExpiry /\ C21_AfterExpiry]_vars

\* The stale answer at the end of the scenario: the store still as the first
\* GET left it, the whole listing returned.
C21_Witness ==
    /\ \E batch \in Batches : C21_AfterFirstGet(batch) /\ C21_SameRecords(resp, batch)
    /\ now >= cache_meta[CACHE_KEY].expires_at
    /\ cache_meta[CACHE_KEY].last_updated = 0
    /\ Answered("GET")
    /\ resp.source = "stale_cache"
    /\ resp.offset = 0
    /\ Len(resp.results) = Len(launches)

BatchIds(batch) == { batch[i].id : i \in 1..Len(batch) }

Rows(table) == { table[i] : i \in 1..Len(table) }

\* A refresh commits its two writes in this step: every id of its batch has one
\* row, the batch's version in full, every other row is as it was, and the
\* metadata row is the one of this write.
C22_LastWriterWins ==
    (resp'.req # 0 /\ resp'.obs.wrote = "ok") =>
        LET batch == resp'.obs.batch
        IN  /\ \A i, j \in 1..Len(launches') : launches'[i].id = launches'[j].id => i = j
            /\ \A k \in 1..Len(batch) :
                 \E j \in 1..Len(launches') :
                     /\ launches'[j].id = batch[k].id
                     /\ launches'[j].name = batch[k].name
                     /\ launches'[j].net = batch[k].net
                     /\ launches'[j].status_name =
                            (IF batch[k].status = Absent THEN "Unknown" ELSE batch[k].status)
                     /\ launches'[j].created_at = now
                     /\ launches'[j].updated_at = now
            /\ { row \in Rows(launches') : row.id \notin BatchIds(batch) }
                 = { row \in Rows(launches) : row.id \notin BatchIds(batch) }
            /\ cache_meta'[CACHE_KEY] = FreshRow

\* C22: when refreshes overlap and each writes, after every commit the store
\* has one row per id, the row of each id is in full the version of the
\* transaction that committed last for it, and the metadata row is that of the
\* last commit.
C22_ConcurrentRefreshes == [][C22_LastWriterWins]_vars

\* A GET has just written BatchA although the cache is valid: another refresh
\* wrote while its fetch was in flight.  The store holds that refresh's L3 and
\* BatchA's version of L1.
C22_Witness ==
    /\ Answered("GET")
    /\ resp.obs.wrote = "ok"
    /\ resp.obs.batch = BatchA
    /\ resp.obs.meta_before # NoRow
    /\ now < resp.obs.meta_before.expires_at
    /\ \E j \in 1..Len(launches) : launches[j].id = "L3"
    /\ \E j \in 1..Len(launches) : launches[j] = ToRow(BatchA[2], now)
    /\ cache_meta[CACHE_KEY] = FreshRow

Ids(table) == { table[i].id : i \in 1..Len(table) }

\* This step is the inspector's DELETE FROM launches.
C23_Purge == inspector = "idle" /\ inspector' = "clearing" /\ launches' = << >>

\* This step is a refresh that has run its upsert to the end.
C23_Upserted == resp'.req # 0 /\ resp'.obs.wrote \in {"ok", "meta_failed"}

C23_Step ==
    /\ ~C23_Purge => Ids(launches) \subseteq Ids(launches')
    /\ \A row \in Rows(launches) :
           (row \notin Rows(launches') /\ ~C23_Purge) =>
               (C23_Upserted /\ row.id \in BatchIds(resp'.obs.batch))
    /\ \A row \in Rows(launches') :
           row \notin Rows(launches) =>
               (C23_Upserted /\ row.id \in BatchIds(resp'.obs.batch))

\* C23: in every step that is not the inspector's purge the set of stored ids
\* stays or grows; a row is replaced, and a row appears, only in the step of a
\* refresh whose upsert ran and whose batch contains its id.
C23_RecordsOnlyGrow == [][C23_Step]_vars

\* A refresh has just written BatchA into a store that held a record outside
\* the batch; that record is still there as it was written earlier.
C23_Witness ==
    /\ resp.req # 0
    /\ resp.obs.wrote = "ok"
    /\ resp.obs.batch = BatchA
    /\ now > 0
    /\ \E row \in Rows(launches) :
         /\ row.id \notin BatchIds(BatchA)
         /\ row.created_at < now
    /\ \A id \in BatchIds(BatchA) : id \in Ids(launches)

\* This step is the inspector's --clear-cache on a key that has a row.
C24_Cleared ==
    /\ inspector = "idle"
    /\ inspector' = "idle"
    /\ cache_meta[CACHE_KEY] # NoRow
    /\ cache_meta'[CACHE_KEY] = NoRow

C24_Step ==
    /\ C24_Cleared =>
           /\ launches' = launches
           /\ ~isCacheValid(cache_meta', CACHE_KEY, CACHE_TTL_MINUTES, now')
    /\ cache_meta[CACHE_KEY] = NoRow =>
           /\ ~(resp'.req # 0 /\ resp'.source = "cache")
           /\ \A r \in Reqs :
                  (inflight[r].pc = "idle" /\ (inflight'[r] # inflight[r] \/ resp'.req = r)) =>
                      (inflight'[r].pc = "fetching" /\ inflight'[r].calls = 1)

\* C24: --clear-cache deletes the metadata row and leaves the table launches
\* as it is; while the row is missing no GET is answered from the cache: a
\* GET invoked then starts an upstream fetch, whatever the store holds.
C24_ClearCacheForcesFetch == [][C24_Step]_vars

\* No metadata row, a store of three records, and a GET that went upstream
\* all the same.
C24_Witness ==
    /\ cache_meta[CACHE_KEY] = NoRow
    /\ inspector = "idle"
    /\ Len(launches) = 3
    /\ \E r \in Reqs :
         /\ inflight[r].pc = "fetching"
         /\ inflight[r].method = "GET"
         /\ inflight[r].calls = 1

\* C25: in every data response cached is true exactly for the sources cache
\* and stale_cache, a warning is present exactly for stale_cache, a GET reports
\* one of cache, api, stale_cache, and a POST that returns data reports
\* manual_refresh with cached = false.
C25_ProvenanceTags ==
    (resp.req # 0 /\ resp.status = 200) =>
        /\ resp.source \in DataSources
        /\ resp.cached <=> resp.source \in {"cache", "stale_cache"}
        /\ (resp.warning # NoWarning) <=> resp.source = "stale_cache"
        /\ resp.method = "GET" => resp.source \in {"cache", "api", "stale_cache"}
        /\ resp.method = "POST" => (resp.source = "manual_refresh" /\ ~resp.cached)

\* A stale answer: cached, with its warning.
C25_Witness ==
    /\ Answered("GET")
    /\ resp.status = 200
    /\ resp.source = "stale_cache"
    /\ resp.cached
    /\ resp.warning = StaleWarning
    /\ resp.count > 0

C26_AtMostOneCall ==
    /\ \A r \in Reqs : inflight[r].calls \in {0, 1}
    /\ resp.req # 0 => (resp.obs.calls \in {0, 1} /\ inflight[resp.req].pc = "idle")

\* A slot that awaits its fetch changes only by answering: one response, the
\* invocation over, one upstream call made.
C26_Step ==
    \A r \in Reqs :
        (inflight[r].pc = "fetching" /\ inflight'[r] # inflight[r]) =>
            /\ inflight'[r] = Idle
            /\ resp'.req = r
            /\ resp'.status \in {200, 500}
            /\ resp'.obs.calls = 1

\* C26: no invocation makes more than one upstream call; the step in which
\* its call returns or fails is the step that answers, once, and ends it; and
\* every invocation that awaits a fetch ends.
C26_OneAttemptThenAnswer ==
    /\ []C26_AtMostOneCall
    /\ [][C26_Step]_vars
    /\ \A r \in Reqs : (inflight[r].pc = "fetching") ~> (inflight[r].pc = "idle")

\* A GET and a POST have both failed upstream once and answered: the POST
\* with its error just now, the other slot idle again.
C26_Witness ==
    /\ Answered("POST")
    /\ resp.status = 500
    /\ resp.obs.fetched \in PostFailures
    /\ resp.obs.calls = 1
    /\ \A r \in Reqs : inflight[r] = Idle

\* The body the hit branch of GET builds for this store and window.
C27_HitBody(table, limit, offset) ==
    LET hit == StoredResponse(0, "cache", NoWarning, table, limit, offset, resp.obs)
    IN  [count |-> hit.count, results |-> hit.results, next |-> hit.next,
         previous |-> hit.previous, cached |-> hit.cached, status |-> hit.status]

C28_ReadOnlyPath ==
    /\ resp'.req # 0
    /\ \/ resp'.method = "GET" /\ resp'.source \in {"cache", "stale_cache"}
       \/ resp'.method = "GET" /\ resp'.status = 500
       \/ resp'.method = "POST" /\ resp'.obs.fetched \in GetFailures

\* C28 as stated: an invocation that answers on one of these paths leaves the
\* table launches and the table cache_meta as they were, and so does not make
\* an invalid cache valid.
C28_ReadPathsWriteNothing ==
    [][C28_ReadOnlyPath =>
         /\ launches' = launches
         /\ cache_meta' = cache_meta
         /\ (~RowValid => ~isCacheValid(cache_meta', CACHE_KEY, CACHE_TTL_MINUTES, now'))]_vars

\* C29: an invocation whose fetch succeeds with an empty batch leaves launches
\* and cache_meta as they were and answers 200 with source api (GET) or
\* manual_refresh (POST), count 0 and no results; an invalid cache stays
\* invalid.
C29_EmptyBatchWritesNothing ==
    [][(resp'.req # 0 /\ resp'.obs.fetched = "ok" /\ resp'.obs.batch = BatchEmpty) =>
         /\ launches' = launches
         /\ cache_meta' = cache_meta
         /\ resp'.obs.wrote = "none"
         /\ resp'.status = 200
         /\ resp'.source = (IF resp'.method = "GET" THEN "api" ELSE "manual_refresh")
         /\ ~resp'.cached
         /\ resp'.count = 0
         /\ resp'.results = << >>
         /\ (~RowValid => ~isCacheValid(cache_meta', CACHE_KEY, CACHE_TTL_MINUTES, now'))]_vars

\* A GET on an expired cache with records has fetched an empty batch: count 0,
\* the records still stored, the row still expired.
C29_Witness ==
    /\ Answered("GET")
    /\ resp.obs.fetched = "ok"
    /\ resp.obs.batch = BatchEmpty
    /\ resp.source = "api"
    /\ resp.count = 0
    /\ launches # << >>
    /\ cache_meta[CACHE_KEY] # NoRow
    /\ ~RowValid

\* C30: a GET on an invalid cache starts its own upstream fetch whatever the
\* other invocations are doing, and a GET whose fetch returns a batch writes
\* records and metadata whatever was written while it was in flight: fetches
\* overlap and each of them writes.
C30_NoSingleFlight ==
    \A r \in Reqs :
        /\ (inflight[r].pc = "idle" /\ ~RowValid) =>
               ENABLED (GetBegin(r, DefaultWindow[1], DefaultWindow[2])
                        /\ inflight'[r].pc = "fetching")
        /\ (inflight[r].pc = "fetching" /\ inflight[r].method = "GET") =>
               ENABLED (GetFetched(r, DefaultWindow[1], DefaultWindow[2],
                                   [kind |-> "ok", results |-> BatchA], "none")
                        /\ resp'.obs.wrote = "ok"
                        /\ cache_meta'[CACHE_KEY] = FreshRow)

\* Two GETs have their fetches in flight together; neither has written.
C30_Witness ==
    /\ \A r \in Reqs : inflight[r].pc = "fetching" /\ inflight[r].method = "GET"
    /\ launches = << >>
    /\ cache_meta[CACHE_KEY] = NoRow

\* What a response shows of a set of rows.
C31_Seen(rows) == { [id |-> x.id, name |-> x.name, net |-> x.net] : x \in rows }

\* A read returns the committed table, whether or not a transaction is open
\* and whatever that transaction has written so far.
C31_ReadSeesCommitted ==
    resp'.req # 0 =>
        /\ resp'.count = Len(launches)
        /\ C31_Seen(Rows(resp'.results)) = C31_Seen(Rows(launches))
        /\ launches' = launches

\* The committed table changes only by a commit, and then to a table that
\* holds every row of the batch.
C31_CommitAll ==
    launches' # launches =>
        \E r \in Reqs :
            /\ inflight[r].pc = "writing"
            /\ inflight'[r].pc = "idle"
            /\ inflight[r].i > Len(inflight[r].batch)
            /\ \A k \in 1..Len(inflight[r].batch) :
                 ToRow(inflight[r].batch[k], inflight[r].t) \in Rows(launches')

\* No committed table holds a row of a batch that was rolled back.
C31_NoPartialBatch ==
    \A t \in Clock : ToRow(BatchBad[1], t) \notin Rows(launches)

\* C31: a read that runs while an upsert transaction is open sees none of the
\* rows written so far, a read after the commit sees all of them, and the rows
\* of a transaction that is rolled back are never seen.
C31_ReadsSeeNoneOrAll ==
    /\ []C31_NoPartialBatch
    /\ [][C31_ReadSeesCommitted /\ C31_CommitAll]_vars

\* A read between the two statements of a transaction that replaces a stored
\* record: the response shows the table as it was, the old record included.
C31_Witness ==
    /\ resp.req # 0
    /\ resp.count = 2
    /\ \E r \in Reqs :
         /\ inflight[r].pc = "writing"
         /\ inflight[r].i = 2
         /\ inflight[r].work # launches
         /\ inflight[r].t > 0

\* Some response with BatchB, the later answer of upstream, has been fetched
\* and written: the store holds a record only BatchB has.
C32_LaterFetched ==
    \E k \in 1..Len(BatchB) :
        /\ BatchB[k].id \notin BatchIds(BatchA)
        /\ BatchB[k].id \in Ids(launches)

\* C32 as stated: when the cache is valid and no refresh is in flight, a
\* stored record whose id is in the batch fetched latest is that batch's
\* version of it.
C32_LatestFetchedWins ==
    (RowValid /\ (\A r \in Reqs : inflight[r].pc = "idle") /\ C32_LaterFetched) =>
        \A k \in 1..Len(BatchB) : Stored(BatchB[k], launches)

\* C33 as stated: right after a refresh has written its batch, the cache
\* being valid, every record of the batch is among the records
\* getCachedLaunches(MAX_API_LIMIT) returns, the set a cache hit pages and
\* counts.
C33_WrittenBatchIsServed ==
    (resp.req # 0 /\ resp.obs.wrote = "ok" /\ RowValid) =>
        \A k \in 1..Len(resp.obs.batch) :
            resp.obs.batch[k].id \in Ids(getCachedLaunches(launches, MAX_API_LIMIT))

\* C34 as stated: whenever the cache is valid the launches table is
\* non-empty, and no GET answers source "cache" with count 0.
C34_ValidStoreNonEmpty ==
    /\ RowValid => launches # << >>
    /\ (Answered("GET") /\ resp.source = "cache") => resp.count > 0

\* C35: across the steps of GET and POST handlers (the steps that leave a
\* cache_meta row), the expires_at of a key never decreases, an absent row
\* counting as below every timestamp, and it changes only in a step that
\* answers a refresh whose non-empty batch was written completely.
C35_ExpiryNeverDecreases ==
    [][\A k \in Keys :
          cache_meta'[k] # NoRow =>
              /\ cache_meta'[k].expires_at >= cache_meta[k].expires_at
              /\ cache_meta'[k].expires_at # cache_meta[k].expires_at =>
                     /\ resp'.req # 0
                     /\ resp'.obs.fetched = "ok"
                     /\ resp'.obs.batch # BatchEmpty
                     /\ resp'.obs.wrote = "ok"]_vars

\* A refresh has just replaced an existing row and pushed its expiry forward.
C35_Witness ==
    /\ resp.req # 0
    /\ resp.obs.wrote = "ok"
    /\ resp.obs.meta_before # NoRow
    /\ cache_meta[CACHE_KEY].expires_at > resp.obs.meta_before.expires_at

\* C36 as stated: for every window with limit >= 0 and offset >= 0, the
\* offset of a next link is strictly greater than the offset of the request,
\* and the offset of a previous link is never negative.
C36_NextLinkAdvances ==
    (resp.req # 0 /\ resp.status = 200 /\ resp.limit >= 0 /\ resp.offset >= 0) =>
        /\ resp.next # NoLink => resp.next > resp.offset
        /\ resp.previous # NoLink => resp.previous >= 0

\* The ids listed by the buckets, bucket after bucket.
RECURSIVE ListedIds(_)
ListedIds(buckets) ==
    IF buckets = << >> THEN << >>
    ELSE Head(buckets).launchIds \o ListedIds(Tail(buckets))

RECURSIVE SumCounts(_)
SumCounts(buckets) ==
    IF buckets = << >> THEN 0 ELSE Head(buckets).count + SumCounts(Tail(buckets))

====
